---- MODULE Spec2Model ----
(***************************************************************************)
(* A model of the blockchain voting system.                                *)
(*                                                                         *)
(* The repository holds two implementations of the same ledger:            *)
(*   - app.py: the web module.  Block, Blockchain and VotingSystem are     *)
(*     shared by the request handlers of the (threaded) web server and by  *)
(*     the auto-mining daemon thread; nothing in it takes a lock.          *)
(*   - blockchain.py + voting_system.py: the standalone modules, called    *)
(*     from one thread.                                                    *)
(* A process runs one of the two (variable program).  The variables of the *)
(* web module carry the source's names; those of blockchain.py carry the   *)
(* prefix bc_ and those of voting_system.py the prefix vs_.                *)
(*                                                                         *)
(* A thread of the web module is at a label named after the source line of *)
(* app.py it is about to execute; the statements between two labels touch  *)
(* only the thread's own locals (frame) or are one access of the shared    *)
(* state.                                                                  *)
(***************************************************************************)
EXTENDS Integers, Sequences, FiniteSets, TLC

VARIABLES program, now, requests,
          chain, pending_transactions, voted_voters, registered_voters,
          pc, frame, ret,
          bc_chain, bc_pending_transactions,
          vs_voters, vs_pending_votes, vs_ret

vars == <<program, now, requests, chain, pending_transactions, voted_voters, registered_voters,
          pc, frame, ret, bc_chain, bc_pending_transactions,
          vs_voters, vs_pending_votes, vs_ret>>

app_vars == <<chain, pending_transactions, voted_voters, registered_voters,
              pc, frame, ret>>

lib_vars == <<bc_chain, bc_pending_transactions, vs_voters, vs_pending_votes, vs_ret>>

----------------------------------------------------------------------------
(* Bounds of the model *)

\* voter ids are 1..MaxVoters (they stand for the id strings)
MaxVoters == 2

\* the clock (time.time()) runs from 1 to MaxTime
MaxTime == 2

\* a digest has HashLen hexadecimal digits (64 in the program)
HashLen == 3

\* the web server accepts at most MaxRequests requests
MaxRequests == 4

\* at most MaxBusy threads of the web module are inside a call at a time
MaxBusy == 2

\* the number of records submitted to a Blockchain used on its own
MaxSubmits == 3

----------------------------------------------------------------------------
(* Program constants *)

difficulty == 2

bc_difficulty == 2

TokenLen == 12

candidates == <<"Alice", "Bob", "Charlie", "Diana", "Edward">>

vs_candidates == <<"Alice", "Bob", "Charlie", "Diana">>

----------------------------------------------------------------------------
(* Inputs *)

VoterIds == 1..MaxVoters

\* candidate names a request may carry: two of both candidate lists, one of
\* neither
CandidateInputs == {"Alice", "Bob", "Mallory"}

Names == <<"Alice", "Bob", "Charlie", "Diana", "Edward", "Mallory">>

Handlers == {"h1", "h2"}

Threads == Handlers \cup {"auto"}

Range(s) == {s[i] : i \in DOMAIN s}

----------------------------------------------------------------------------
(* Hexadecimal strings and the digest *)

HexSpace == 16 ^ HashLen

\* the n-digit hexadecimal string of a number
ToHex(n, len) == [i \in 1..len |-> (n \div (16 ^ (len - i))) % 16]

\* the number the first n digits of a hexadecimal string denote
RECURSIVE HexValue(_, _)
HexValue(h, n) == IF n = 0 THEN 0 ELSE 16 * HexValue(h, n - 1) + h[n]

FromHex(h) == HexValue(h, Len(h))

\* s[:n]
Prefix(s, n) == SubSeq(s, 1, IF n < Len(s) THEN n ELSE Len(s))

\* "0" * n
Zeros(n) == [i \in 1..n |-> 0]

NameCode(c) == CHOOSE i \in DOMAIN Names : Names[i] = c

\* the serialization of one transaction: a vote record or the genesis marker
TxCode(tx) == IF "voter_id" \in DOMAIN tx
              THEN 2 + 3 * tx.voter_id + 5 * NameCode(tx.candidate) + 7 * tx.timestamp
              ELSE 1

\* the serialization of the first n transactions of a list
RECURSIVE TxsCode(_, _)
TxsCode(txs, n) == IF n = 0 THEN 0
                   ELSE (31 * TxsCode(txs, n - 1) + TxCode(txs[n])) % HexSpace

\* hashlib.sha256(...).hexdigest() of a serialized value: a deterministic
\* function of the value; the nonce moves the leading digits
sha256(content, nonce) == ToHex((content + nonce * (16 ^ (HashLen - 2))) % HexSpace, HashLen)

----------------------------------------------------------------------------
(* Block *)

calculate_hash(b) ==
    sha256(11 * b.index + 13 * TxsCode(b.transactions, Len(b.transactions)) + 17 * b.timestamp
             + 19 * FromHex(b.previous_hash),
           b.nonce)

Block(index, transactions, timestamp, previous_hash) ==
    LET b == [index |-> index, transactions |-> transactions,
              timestamp |-> timestamp, previous_hash |-> previous_hash,
              nonce |-> 0, hash |-> <<>>]
    IN  [b EXCEPT !.hash = calculate_hash(b)]

\* self.hash[:difficulty] != "0" * difficulty
unmined_first_digit(b, d) == b.hash[1] # 0

unmined(b, d) == Prefix(b.hash, d) # Zeros(d)

\* one pass of the body of the loop of mine_block
next_nonce_stale(b) == [b EXCEPT !.hash = calculate_hash(b), !.nonce = @ + 1]

next_nonce(b) ==
    LET n == [b EXCEPT !.nonce = @ + 1]
    IN  [n EXCEPT !.hash = calculate_hash(n)]

\* at most rounds passes of the loop of mine_block
RECURSIVE mine_rounds(_, _, _)
mine_rounds(b, d, rounds) ==
    IF rounds = 0 \/ ~unmined(b, d) THEN b
    ELSE mine_rounds(next_nonce(b), d, rounds - 1)

\* Block.mine_block: the loop runs until the hash has d leading zeros (it is
\* evaluated sixteen passes at a time, which keeps the evaluation shallow)
RECURSIVE mine_block(_, _)
mine_block(b, d) ==
    IF ~unmined(b, d) THEN b
    ELSE mine_block(mine_rounds(b, d, 16), d)

----------------------------------------------------------------------------
(* The web module: Blockchain and VotingSystem of app.py *)

NoFrame == [op |-> "none"]

NoRet == [success |-> FALSE, message |-> "(no response)"]

Response(success, message) == [success |-> success, message |-> message]

\* d[k] = v on a dict
DictSet(d, k, v) == [x \in (DOMAIN d) \cup {k} |-> IF x = k THEN v ELSE d[x]]

vote_transaction_first_candidate(voter_id, candidate, timestamp) ==
    [type |-> "vote", voter_id |-> voter_id, candidate |-> candidates[1],
     timestamp |-> timestamp]

vote_transaction(voter_id, candidate, timestamp) ==
    [type |-> "vote", voter_id |-> voter_id, candidate |-> candidate,
     timestamp |-> timestamp]

\* hashlib.sha256(f"{voter_id}{time.time()}".encode()).hexdigest()[:12]
make_token(voter_id, time) == Prefix(sha256(23 * voter_id + 29 * time, 0), TokenLen)

\* the tokens a request may carry
TokenInputs == {make_token(v, time) : v \in VoterIds, time \in 1..MaxTime}

create_genesis_block_after_none(time) ==
    mine_block(Block(1, <<[message |-> "Genesis Block"]>>, time, <<0>>), difficulty)

create_genesis_block(time) ==
    mine_block(Block(0, <<[message |-> "Genesis Block"]>>, time, <<0>>), difficulty)

get_latest_block_first == chain[1]

get_latest_block == chain[Len(chain)]

verify_voter_any_token(voter_id, token) ==
    IF voter_id \notin DOMAIN registered_voters
    THEN Response(FALSE, "Voter not registered")
    ELSE Response(TRUE, "Verification successful")

verify_voter(voter_id, token) ==
    IF voter_id \notin DOMAIN registered_voters
    THEN Response(FALSE, "Voter not registered")
    ELSE IF registered_voters[voter_id] # token
         THEN Response(FALSE, "Invalid token")
         ELSE Response(TRUE, "Verification successful")

\* Blockchain.add_vote: voter_id in self.voted_voters
already_voted_never(voter_id) == FALSE

already_voted_in_pool(voter_id) ==
    \E i \in DOMAIN pending_transactions : pending_transactions[i].voter_id = voter_id

already_voted(voter_id) == voter_id \in voted_voters

\* a call of a route starts: the thread is free and the call's arguments are
\* its locals
Busy == {u \in Threads : pc[u] # "idle"}

Call(t, locals) ==
    /\ program = "app"
    /\ t \in Handlers
    /\ pc[t] = "idle"
    /\ Cardinality(Busy) < MaxBusy
    /\ requests < MaxRequests
    /\ requests' = requests + 1
    /\ frame' = [frame EXCEPT ![t] = locals]

\* a call returns r: a route hands it to its client (respond), the daemon
\* thread drops it and sleeps
Return(t, r) ==
    /\ pc' = [pc EXCEPT ![t] = IF t \in Handlers THEN "respond" ELSE "idle"]
    /\ ret' = IF t \in Handlers THEN [ret EXCEPT ![t] = r] ELSE ret

\* the route returns its response and the thread is free again
respond(t) ==
    /\ program = "app"
    /\ UNCHANGED requests
    /\ pc[t] = "respond"
    /\ pc' = [pc EXCEPT ![t] = "idle"]
    /\ frame' = [frame EXCEPT ![t] = NoFrame]
    /\ ret' = [ret EXCEPT ![t] = NoRet]
    /\ UNCHANGED <<chain, pending_transactions, voted_voters, registered_voters>>

\* VotingSystem.register_voter: the membership test
register_voter_untested(t, voter_id) ==
    /\ Call(t, [op |-> "register_voter", voter_id |-> voter_id])
    /\ pc' = [pc EXCEPT ![t] = "register_voter_166"]
    /\ UNCHANGED <<ret, chain, pending_transactions, voted_voters, registered_voters>>

register_voter_162(t, voter_id) ==
    /\ Call(t, [op |-> "register_voter", voter_id |-> voter_id])
    /\ IF voter_id \in DOMAIN registered_voters
       THEN Return(t, Response(FALSE, "Voter already registered"))
       ELSE /\ pc' = [pc EXCEPT ![t] = "register_voter_166"]
            /\ UNCHANGED ret
    /\ UNCHANGED <<chain, pending_transactions, voted_voters, registered_voters>>

\* VotingSystem.register_voter: the token and the store
register_voter_166(t) ==
    /\ program = "app"
    /\ UNCHANGED requests
    /\ pc[t] = "register_voter_166"
    /\ registered_voters' = DictSet(registered_voters, frame[t].voter_id,
                                    make_token(frame[t].voter_id, now))
    /\ Return(t, Response(TRUE, "Registration successful"))
    /\ UNCHANGED <<chain, pending_transactions, voted_voters, frame>>

\* f"Invalid candidate. Choose from: {', '.join(self.candidates)}"
InvalidCandidate == "Invalid candidate. Choose from: Alice, Bob, Charlie, Diana, Edward"

\* VotingSystem.cast_vote up to the membership test of Blockchain.add_vote
cast_vote_185_unlisted(t, voter_id, token, candidate) ==
    /\ LET verified == verify_voter(voter_id, token) IN
       IF ~verified.success
       THEN Call(t, [op |-> "cast_vote", voter_id |-> voter_id]) /\ Return(t, verified)
       ELSE IF already_voted(voter_id)
       THEN /\ Call(t, [op |-> "cast_vote", voter_id |-> voter_id])
            /\ Return(t, Response(FALSE, "This voter has already voted"))
       ELSE /\ Call(t, [op |-> "cast_vote", voter_id |-> voter_id,
                         candidate |-> candidate])
            /\ pc' = [pc EXCEPT ![t] = "add_vote_78"]
            /\ UNCHANGED ret
    /\ UNCHANGED <<chain, pending_transactions, voted_voters, registered_voters>>

cast_vote_185(t, voter_id, token, candidate) ==
    /\ LET verified == verify_voter(voter_id, token) IN
       IF ~verified.success
       THEN Call(t, [op |-> "cast_vote", voter_id |-> voter_id]) /\ Return(t, verified)
       ELSE IF candidate \notin Range(candidates)
       THEN /\ Call(t, [op |-> "cast_vote", voter_id |-> voter_id])
            /\ Return(t, Response(FALSE, InvalidCandidate))
       ELSE IF already_voted(voter_id)
       THEN /\ Call(t, [op |-> "cast_vote", voter_id |-> voter_id])
            /\ Return(t, Response(FALSE, "This voter has already voted"))
       ELSE /\ Call(t, [op |-> "cast_vote", voter_id |-> voter_id,
                         candidate |-> candidate])
            /\ pc' = [pc EXCEPT ![t] = "add_vote_78"]
            /\ UNCHANGED ret
    /\ UNCHANGED <<chain, pending_transactions, voted_voters, registered_voters>>

\* Blockchain.add_vote: the transaction is built and appended to the pool
add_vote_78(t) ==
    /\ program = "app"
    /\ UNCHANGED requests
    /\ pc[t] = "add_vote_78"
    /\ pending_transactions' =
           Append(pending_transactions,
                  vote_transaction(frame[t].voter_id, frame[t].candidate, now))
    /\ pc' = [pc EXCEPT ![t] = "add_vote_79"]
    /\ UNCHANGED <<chain, voted_voters, registered_voters, frame, ret>>

\* Blockchain.add_vote: the voter is marked and the call returns
add_vote_79_unmarked(t) ==
    /\ program = "app"
    /\ UNCHANGED requests
    /\ pc[t] = "add_vote_79"
    /\ Return(t, Response(TRUE, "Vote added successfully"))
    /\ frame' = [frame EXCEPT ![t] = [op |-> "cast_vote", voter_id |-> frame[t].voter_id]]
    /\ UNCHANGED <<chain, pending_transactions, voted_voters, registered_voters>>

add_vote_79(t) ==
    /\ program = "app"
    /\ UNCHANGED requests
    /\ pc[t] = "add_vote_79"
    /\ voted_voters' = voted_voters \cup {frame[t].voter_id}
    /\ Return(t, Response(TRUE, "Vote added successfully"))
    /\ frame' = [frame EXCEPT ![t] = [op |-> "cast_vote", voter_id |-> frame[t].voter_id]]
    /\ UNCHANGED <<chain, pending_transactions, registered_voters>>

\* the result of Blockchain.mine_pending_transactions when it mined
Mined(mined_count, index) ==
    [success |-> TRUE, message |-> "Mined", mined_count |-> mined_count, index |-> index]

\* not self.pending_transactions
nothing_to_mine_never == FALSE

nothing_to_mine == pending_transactions = <<>>

\* the Block that mine_pending_transactions builds, before it is mined
new_block_next_index(time) ==
    Block(Len(chain) + 1, pending_transactions, time, get_latest_block.hash)

new_block_unlinked(time) ==
    Block(Len(chain), pending_transactions, time, <<0>>)

new_block_dropping_first(time) ==
    Block(Len(chain), Tail(pending_transactions), time, get_latest_block.hash)

new_block(time) ==
    Block(Len(chain), pending_transactions, time, get_latest_block.hash)

\* Blockchain.mine_pending_transactions: the test of the pool.  A request
\* handler comes here from the /mine route, the daemon from line 226.
mine_pending_transactions_85(t) ==
    /\ \/ Call(t, [op |-> "mine"])
       \/ /\ program = "app"
          /\ t = "auto"
          /\ pc[t] = "mine_85"
          /\ UNCHANGED requests
          /\ frame' = [frame EXCEPT ![t] = [op |-> "mine"]]
    /\ IF nothing_to_mine
       THEN Return(t, Response(FALSE, "No votes to mine"))
       ELSE /\ pc' = [pc EXCEPT ![t] = "mine_92"]
            /\ UNCHANGED ret
    /\ UNCHANGED <<chain, pending_transactions, voted_voters, registered_voters>>

\* the new block is built from the chain and a copy of the pool, and mined
mine_pending_transactions_92(t) ==
    /\ program = "app"
    /\ UNCHANGED requests
    /\ pc[t] = "mine_92"
    /\ frame' = [frame EXCEPT ![t] =
                     [op |-> "mine", new_block |-> mine_block(new_block(now), difficulty)]]
    /\ pc' = [pc EXCEPT ![t] = "mine_100"]
    /\ UNCHANGED <<chain, pending_transactions, voted_voters, registered_voters, ret>>

\* self.chain.append(new_block)
mine_pending_transactions_overwrite(t) ==
    /\ program = "app"
    /\ UNCHANGED requests
    /\ pc[t] = "mine_100"
    /\ chain' = [chain EXCEPT ![Len(chain)] = frame[t].new_block]
    /\ pc' = [pc EXCEPT ![t] = "mine_103"]
    /\ UNCHANGED <<pending_transactions, voted_voters, registered_voters, frame, ret>>

mine_pending_transactions_prepend(t) ==
    /\ program = "app"
    /\ UNCHANGED requests
    /\ pc[t] = "mine_100"
    /\ chain' = <<frame[t].new_block>> \o chain
    /\ pc' = [pc EXCEPT ![t] = "mine_103"]
    /\ UNCHANGED <<pending_transactions, voted_voters, registered_voters, frame, ret>>

mine_pending_transactions_100(t) ==
    /\ program = "app"
    /\ UNCHANGED requests
    /\ pc[t] = "mine_100"
    /\ chain' = Append(chain, frame[t].new_block)
    /\ pc' = [pc EXCEPT ![t] = "mine_103"]
    /\ UNCHANGED <<pending_transactions, voted_voters, registered_voters, frame, ret>>

\* the pool is counted and cleared, and the call returns
mine_pending_transactions_103(t) ==
    /\ program = "app"
    /\ UNCHANGED requests
    /\ pc[t] = "mine_103"
    /\ pending_transactions' = <<>>
    /\ Return(t, Mined(Len(pending_transactions), frame[t].new_block.index))
    /\ frame' = [frame EXCEPT ![t] = IF t \in Handlers THEN [op |-> "mine"] ELSE NoFrame]
    /\ UNCHANGED <<chain, voted_voters, registered_voters>>

\* auto_mining_thread: after the sleep, the test of the pool
auto_mining_thread_225 ==
    /\ program = "app"
    /\ pc["auto"] = "idle"
    /\ Cardinality(Busy) < MaxBusy
    /\ pending_transactions # <<>>
    /\ UNCHANGED requests
    /\ pc' = [pc EXCEPT !["auto"] = "mine_85"]
    /\ UNCHANGED <<chain, pending_transactions, voted_voters, registered_voters, frame, ret>>

\* one step of thread t of the web module
AppStep(t) ==
    /\ \/ \E voter_id \in VoterIds : register_voter_162(t, voter_id)
       \/ register_voter_166(t)
       \/ \E voter_id \in VoterIds, token \in TokenInputs, candidate \in CandidateInputs :
            cast_vote_185(t, voter_id, token, candidate)
       \/ add_vote_78(t)
       \/ add_vote_79(t)
       \/ mine_pending_transactions_85(t)
       \/ mine_pending_transactions_92(t)
       \/ mine_pending_transactions_100(t)
       \/ mine_pending_transactions_103(t)
       \/ t = "auto" /\ auto_mining_thread_225
       \/ respond(t)
    /\ UNCHANGED <<program, now, bc_chain, bc_pending_transactions, vs_voters,
                   vs_pending_votes, vs_ret>>

\* no call of the web module is in progress
Quiescent == \A t \in Threads : pc[t] = "idle"

----------------------------------------------------------------------------
(* The standalone modules: Blockchain of blockchain.py and VotingSystem of
   voting_system.py.  Their Block is the Block of app.py, line for line. *)

\* what a call of VotingSystem gave: a returned message or token, or the
\* message of the exception it raised
Returned(message) == [raised |-> FALSE, message |-> message, token |-> <<>>]

Raised(message) == [raised |-> TRUE, message |-> message, token |-> <<>>]

\* the genesis transaction of blockchain.py is a plain string, not a dict
GenesisString == [string |-> "Genesis Block"]

\* isinstance(transaction, dict)
isinstance_dict(transaction) == "string" \notin DOMAIN transaction

bc_create_genesis_block(time) ==
    mine_block(Block(0, <<GenesisString>>, time, <<0>>), bc_difficulty)

bc_get_latest_block == bc_chain[Len(bc_chain)]

\* the transactions of all blocks, in chain order
RECURSIVE Flatten(_, _)
Flatten(blocks, n) ==
    IF n = 0 THEN <<>> ELSE Flatten(blocks, n - 1) \o blocks[n].transactions

\* Blockchain.get_voter_votes: the keys of the dict it builds
bc_get_voter_votes ==
    LET txs == Flatten(bc_chain, Len(bc_chain))
    IN  {txs[i].voter_id : i \in {j \in DOMAIN txs :
            isinstance_dict(txs[j]) /\ "voter_id" \in DOMAIN txs[j]}}

bc_has_voter_voted(voter_id) == voter_id \in bc_get_voter_votes

vs_verify_token(voter_id, token) ==
    voter_id \in DOMAIN vs_voters /\ vs_voters[voter_id].token = token

\* VotingSystem.cast_vote, line 46
vs_has_voted_pending_only(voter_id) == voter_id \in DOMAIN vs_pending_votes

vs_has_voted(voter_id) ==
    \/ vs_voters[voter_id].voted
    \/ bc_has_voter_voted(voter_id)
    \/ voter_id \in DOMAIN vs_pending_votes

vs_register_voter(voter_id) ==
    /\ program = "voting_system"
    /\ IF voter_id \in DOMAIN vs_voters
       THEN /\ vs_ret' = Raised("Voter already registered")
            /\ UNCHANGED vs_voters
       ELSE LET token == make_token(voter_id, now) IN
            /\ vs_voters' = DictSet(vs_voters, voter_id, [token |-> token, voted |-> FALSE])
            /\ vs_ret' = [raised |-> FALSE, message |-> "token", token |-> token]
    /\ UNCHANGED <<bc_chain, bc_pending_transactions, vs_pending_votes>>

vs_cast_vote(voter_id, token, candidate) ==
    /\ program = "voting_system"
    /\ IF voter_id \notin DOMAIN vs_voters
       THEN /\ vs_ret' = Returned("Voter not registered")
            /\ UNCHANGED <<bc_pending_transactions, vs_voters, vs_pending_votes>>
       ELSE IF ~vs_verify_token(voter_id, token)
       THEN /\ vs_ret' = Returned("Invalid token")
            /\ UNCHANGED <<bc_pending_transactions, vs_voters, vs_pending_votes>>
       ELSE IF candidate \notin Range(vs_candidates)
       THEN /\ vs_ret' = Returned("Invalid candidate")
            /\ UNCHANGED <<bc_pending_transactions, vs_voters, vs_pending_votes>>
       ELSE IF vs_has_voted(voter_id)
       THEN /\ vs_ret' = Returned("Voter has already cast a vote")
            /\ UNCHANGED <<bc_pending_transactions, vs_voters, vs_pending_votes>>
       ELSE LET tx == vote_transaction(voter_id, candidate, now) IN
            /\ vs_pending_votes' = DictSet(vs_pending_votes, voter_id, tx)
            /\ bc_pending_transactions' = Append(bc_pending_transactions, tx)
            /\ vs_voters' = [vs_voters EXCEPT ![voter_id].voted = TRUE]
            /\ vs_ret' = Returned("Vote cast successfully! It will be added to blockchain when mined.")
    /\ UNCHANGED bc_chain

\* VotingSystem.mine_votes with Blockchain.mine_pending_transactions
vs_mine_votes_keeping ==
    /\ program = "voting_system"
    /\ IF bc_pending_transactions = <<>>
       THEN /\ vs_ret' = Returned("No votes to mine")
            /\ UNCHANGED <<bc_chain, bc_pending_transactions, vs_pending_votes>>
       ELSE LET block == Block(Len(bc_chain), bc_pending_transactions, now,
                               bc_get_latest_block.hash)
            IN  /\ bc_chain' = Append(bc_chain, mine_block(block, bc_difficulty))
                /\ bc_pending_transactions' = <<>>
                /\ UNCHANGED vs_pending_votes
                /\ vs_ret' = Returned("Votes mined successfully!")
    /\ UNCHANGED vs_voters

vs_mine_votes ==
    /\ program = "voting_system"
    /\ IF bc_pending_transactions = <<>>
       THEN /\ vs_ret' = Returned("No votes to mine")
            /\ UNCHANGED <<bc_chain, bc_pending_transactions, vs_pending_votes>>
       ELSE LET block == Block(Len(bc_chain), bc_pending_transactions, now,
                               bc_get_latest_block.hash)
            IN  /\ bc_chain' = Append(bc_chain, mine_block(block, bc_difficulty))
                /\ bc_pending_transactions' = <<>>
                /\ vs_pending_votes' = <<>>
                /\ vs_ret' = Returned("Votes mined successfully!")
    /\ UNCHANGED vs_voters

\* Blockchain.add_transaction of blockchain.py, called on the Blockchain
\* itself with a vote record
bc_add_transaction_checked(transaction) ==
    /\ program = "voting_system"
    /\ requests < MaxSubmits
    /\ requests' = requests + 1
    /\ bc_pending_transactions' =
          IF \E i \in DOMAIN bc_pending_transactions :
                 bc_pending_transactions[i].voter_id = transaction.voter_id
          THEN bc_pending_transactions
          ELSE Append(bc_pending_transactions, transaction)
    /\ vs_ret' = Returned("True")
    /\ UNCHANGED <<program, now, app_vars, bc_chain, vs_voters, vs_pending_votes>>

bc_add_transaction(transaction) ==
    /\ program = "voting_system"
    /\ requests < MaxSubmits
    /\ requests' = requests + 1
    /\ bc_pending_transactions' = Append(bc_pending_transactions, transaction)
    /\ vs_ret' = Returned("True")
    /\ UNCHANGED <<program, now, app_vars, bc_chain, vs_voters, vs_pending_votes>>

\* one call of the standalone VotingSystem
LibStep ==
    /\ \/ \E voter_id \in VoterIds : vs_register_voter(voter_id)
       \/ \E voter_id \in VoterIds, token \in TokenInputs, candidate \in CandidateInputs :
            vs_cast_vote(voter_id, token, candidate)
       \/ vs_mine_votes
    /\ UNCHANGED <<program, now, requests, app_vars>>

----------------------------------------------------------------------------
(* Queries: the functions that read the ledger *)

\* results[candidate] = results.get(candidate, 0) + 1
count_vote(results, candidate) ==
    DictSet(results, candidate,
            IF candidate \in DOMAIN results THEN results[candidate] + 1 ELSE 1)

\* the loop over the transactions of one list: the first n of them counted
RECURSIVE count_transactions(_, _, _)
count_transactions(results, txs, n) ==
    IF n = 0 THEN results
    ELSE LET counted == count_transactions(results, txs, n - 1) IN
         IF isinstance_dict(txs[n]) /\ "candidate" \in DOMAIN txs[n]
         THEN count_vote(counted, txs[n].candidate)
         ELSE counted

\* the loop over the blocks at positions first..n
RECURSIVE count_blocks(_, _, _, _)
count_blocks(results, blocks, first, n) ==
    IF n < first THEN results
    ELSE count_transactions(count_blocks(results, blocks, first, n - 1),
                            blocks[n].transactions, Len(blocks[n].transactions))

\* Blockchain.get_results of app.py on a chain and a pool: the mined blocks
\* after the genesis block, then the pool
get_results_mined_only(blocks, pool) == count_blocks(<<>>, blocks, 2, Len(blocks))

get_results_of(blocks, pool) ==
    count_transactions(count_blocks(<<>>, blocks, 2, Len(blocks)), pool, Len(pool))

get_results == get_results_of(chain, pending_transactions)

\* Blockchain.get_vote_counts of blockchain.py: every block of the chain
bc_get_vote_counts == count_blocks(<<>>, bc_chain, 1, Len(bc_chain))

\* VotingSystem.get_results of voting_system.py
vs_get_results == bc_get_vote_counts

\* VotingSystem.get_pending_votes_count: len(self.pending_votes)
get_pending_votes_count == Cardinality(DOMAIN vs_pending_votes)

\* the loop of Blockchain.is_chain_valid from position p on (position p is
\* index p - 1): where it returns, and on which test
RECURSIVE validation_loop(_, _)
validation_loop(blocks, p) ==
    IF p > Len(blocks) THEN [valid |-> TRUE]
    ELSE IF blocks[p].hash # calculate_hash(blocks[p])
    THEN [valid |-> FALSE, index |-> p - 1, test |-> "hash"]
    ELSE IF blocks[p].previous_hash # blocks[p - 1].hash
    THEN [valid |-> FALSE, index |-> p - 1, test |-> "previous_hash"]
    ELSE validation_loop(blocks, p + 1)

\* what a validation gives its caller: the returned bool and the lines it
\* printed, each naming an index and the test that failed
Validation(valid, printed) == [valid |-> valid, printed |-> printed]

\* Blockchain.is_chain_valid of app.py: it prints nothing
is_chain_valid(blocks) == Validation(validation_loop(blocks, 2).valid, <<>>)

\* Blockchain.is_chain_valid of blockchain.py: it prints the index and the
\* test before it returns False
bc_is_chain_valid(blocks) ==
    LET r == validation_loop(blocks, 2) IN
    IF r.valid THEN Validation(TRUE, <<>>)
    ELSE Validation(FALSE, <<[index |-> r.index, test |-> r.test]>>)

\* Blockchain.validate_voter of app.py
validate_voter(voter_id) == voter_id \notin voted_voters

\* token[:4] + "****"
token_preview(token) == [shown |-> Prefix(token, 4), masked |-> "****"]

\* [t.get('voter_id') for t in self.blockchain.pending_transactions]
pending_voter_ids ==
    {pending_transactions[i].voter_id : i \in DOMAIN pending_transactions}

\* VotingSystem.get_voter_status of app.py
get_voter_status ==
    [voter_id \in DOMAIN registered_voters |->
        LET has_voted == ~validate_voter(voter_id) IN
        [registered |-> TRUE,
         has_voted |-> has_voted,
         token_preview |-> token_preview(registered_voters[voter_id]),
         voted_at |-> IF has_voted /\ voter_id \in pending_voter_ids THEN "Pending"
                      ELSE IF has_voted THEN "Mined"
                      ELSE "Not voted"]]

\* datetime.fromtimestamp(timestamp).strftime('%H:%M:%S')
strftime(timestamp) ==
    <<(timestamp \div 3600) % 24, (timestamp \div 60) % 60, timestamp % 60>>

\* s[:16] + "..."
Shortened(s) == [shown |-> Prefix(s, 16), then |-> "..."]

\* Block.to_dict
to_dict(b) ==
    [index |-> b.index,
     transactions |-> b.transactions,
     timestamp |-> strftime(b.timestamp),
     previous_hash |-> Shortened(b.previous_hash),
     hash |-> Shortened(b.hash),
     nonce |-> b.nonce]

\* sum(len(block.transactions) for block in self.chain[1:]), up to position n
RECURSIVE mined_count_with_genesis(_, _)
mined_count_with_genesis(blocks, n) ==
    IF n < 1 THEN 0
    ELSE mined_count_with_genesis(blocks, n - 1) + Len(blocks[n].transactions)

RECURSIVE mined_count(_, _)
mined_count(blocks, n) ==
    IF n < 2 THEN 0
    ELSE mined_count(blocks, n - 1) + Len(blocks[n].transactions)

\* Blockchain.get_chain_data
get_chain_data ==
    [blocks |-> [i \in DOMAIN chain |-> to_dict(chain[i])],
     pending_count |-> Len(pending_transactions),
     total_votes |-> mined_count(chain, Len(chain)) + Len(pending_transactions)]

----------------------------------------------------------------------------
(* The queries as calls: a route of app.py answers its client, a method of
   the standalone module returns to its caller *)

\* Blockchain.get_voter_votes: the candidate the dict holds for a voter, the
\* one of the last record of the voter in chain order
bc_voted_for(voter_id) ==
    LET txs == Flatten(bc_chain, Len(bc_chain))
        places == {i \in DOMAIN txs :
                     isinstance_dict(txs[i]) /\ "voter_id" \in DOMAIN txs[i]
                       /\ txs[i].voter_id = voter_id}
    IN  IF places = {} THEN "Not voted yet"
        ELSE txs[CHOOSE i \in places : \A j \in places : j <= i].candidate

\* VotingSystem.get_voter_status of voting_system.py
vs_get_voter_status ==
    [voter_id \in DOMAIN vs_voters |->
        [registered |-> TRUE,
         has_voted |-> \/ vs_voters[voter_id].voted
                       \/ voter_id \in bc_get_voter_votes
                       \/ voter_id \in DOMAIN vs_pending_votes,
         voted_for |-> bc_voted_for(voter_id),
         token |-> [shown |-> Prefix(vs_voters[voter_id].token, 4), then |-> "..."]]]

\* what a query gives: jsonify(value) for a route, the returned value for a
\* method, each with the name of the query
Answer(op, value) == [success |-> TRUE, message |-> op, value |-> value]

VsAnswer(op, value) == [raised |-> FALSE, message |-> op, token |-> <<>>, value |-> value]

\* a route that computes value from the state and returns it
Route(t, op, value) ==
    /\ Call(t, [op |-> op])
    /\ Return(t, Answer(op, value))
    /\ UNCHANGED <<chain, pending_transactions, voted_voters, registered_voters>>

\* GET /results
route_results_draining(t) ==
    /\ Call(t, [op |-> "results"])
    /\ Return(t, Answer("results", get_results))
    /\ pending_transactions' = <<>>
    /\ UNCHANGED <<chain, voted_voters, registered_voters>>

route_results(t) == Route(t, "results", get_results)

\* GET /chain
route_chain(t) == Route(t, "chain", get_chain_data)

\* GET /status
route_status(t) == Route(t, "status", get_voter_status)

\* GET /validate
route_validate(t) == Route(t, "validate", is_chain_valid(chain).valid)

\* one query of the web module
AppQuery(t) ==
    /\ \/ route_results(t)
       \/ route_chain(t)
       \/ route_status(t)
       \/ route_validate(t)
    /\ UNCHANGED <<program, now, lib_vars>>

\* a method of the standalone module that computes value and returns it
Method(op, value) ==
    /\ program = "voting_system"
    /\ vs_ret' = VsAnswer(op, value)
    /\ UNCHANGED <<bc_chain, bc_pending_transactions, vs_voters, vs_pending_votes>>

\* one query of the standalone module
LibQuery ==
    /\ \/ Method("get_results", vs_get_results)
       \/ Method("get_voter_status", vs_get_voter_status)
       \/ Method("get_pending_votes_count", get_pending_votes_count)
       \/ Method("is_chain_valid", bc_is_chain_valid(bc_chain))
       \/ \E voter_id \in VoterIds : Method("has_voter_voted", bc_has_voter_voted(voter_id))
       \/ \E voter_id \in VoterIds, token \in TokenInputs :
             Method("verify_token", vs_verify_token(voter_id, token))
    /\ UNCHANGED <<program, now, requests, app_vars>>

----------------------------------------------------------------------------
(* Time and construction *)

\* time passes
Tick ==
    /\ now < MaxTime
    /\ now' = now + 1
    /\ UNCHANGED <<program, requests, app_vars, lib_vars>>

\* app.py is run: voting_system = VotingSystem() at line 219
InitApp ==
    /\ program = "app"
    /\ chain = <<create_genesis_block(now)>>
    /\ bc_chain = <<>>

\* voting_system.py is used: VotingSystem() builds its Blockchain()
InitLib ==
    /\ program = "voting_system"
    /\ chain = <<>>
    /\ bc_chain = <<bc_create_genesis_block(now)>>

Init ==
    /\ now = 1
    /\ requests = 0
    /\ InitApp \/ InitLib
    /\ pending_transactions = <<>>
    /\ voted_voters = {}
    /\ registered_voters = <<>>
    /\ pc = [t \in Threads |-> "idle"]
    /\ frame = [t \in Threads |-> NoFrame]
    /\ ret = [t \in Handlers |-> NoRet]
    /\ bc_pending_transactions = <<>>
    /\ vs_voters = <<>>
    /\ vs_pending_votes = <<>>
    /\ vs_ret = Returned("(no call yet)")

\* the threads of the web module run interleaved
Next == Tick \/ (\E t \in Threads : AppStep(t)) \/ LibStep

\* calls do not overlap: a thread steps only while every other one is idle
NextSeq ==
    \/ Tick
    \/ \E t \in Threads : (\A u \in Threads \ {t} : pc[u] = "idle") /\ AppStep(t)
    \/ LibStep

\* the Blockchain of blockchain.py used on its own: records are submitted to
\* it directly, and mined
NextLedger ==
    \/ Tick
    \/ vs_mine_votes /\ UNCHANGED <<program, now, requests, app_vars>>
    \/ \E v \in VoterIds, c \in CandidateInputs :
          bc_add_transaction(vote_transaction(v, c, now))

Spec == Init /\ [][Next]_vars

SpecLedger == Init /\ [][NextLedger]_vars

\* the places of a thread
Labels ==
    {"idle", "register_voter_166", "add_vote_78", "add_vote_79", "mine_85",
     "mine_92", "mine_100", "mine_103", "respond"}

\* thread t is the one that takes a step: a step moves its thread to another
\* place and leaves the other threads where they are
Runs(t) == \E l \in Labels \ {pc[t]} : pc' = [pc EXCEPT ![t] = l]

\* a thread that is inside a call goes on: no statement of a call waits
Continue(t) == pc[t] # "idle" /\ Runs(t)

\* the daemon wakes up after its sleep and finds votes in the pool
Wakes ==
    /\ pc["auto"] = "idle"
    /\ Cardinality(Busy) < MaxBusy
    /\ pending_transactions # <<>>
    /\ Runs("auto")

\* one client that sends its requests one after the other, and the daemon
NextFair == Tick \/ AppStep("h1") \/ AppStep("auto")

\* the threads are scheduled fairly: a call that has started goes on to its
\* end, and the daemon thread wakes up again and again (while True, line 223)
SpecFair ==
    /\ Init /\ [][NextFair]_vars
    /\ WF_pc(Continue("h1"))
    /\ WF_pc(Continue("auto"))
    /\ WF_pc(Wakes)

SpecSeq == Init /\ [][NextSeq]_vars

\* the calls that change the ledger one after the other, and queries at any
\* moment, also while such a call is under way
NextQueries ==
    \/ Tick
    \/ \E t \in Threads : (\A u \in Threads \ {t} : pc[u] \in {"idle", "respond"}) /\ AppStep(t)
    \/ \E t \in Handlers : AppQuery(t)
    \/ LibStep
    \/ LibQuery

SpecQueries == Init /\ [][NextQueries]_vars

----------------------------------------------------------------------------
(* The ledger as the properties see it *)

\* the positions of the vote records of a voter in a list of transactions
RecordsOf(txs, voter_id) ==
    {i \in DOMAIN txs : "voter_id" \in DOMAIN txs[i] /\ txs[i].voter_id = voter_id}

\* the transactions of the mined blocks of the web module and of the
\* standalone module
MinedTxs == Flatten(chain, Len(chain))

BcMinedTxs == Flatten(bc_chain, Len(bc_chain))

\* the number of vote records of a voter, pool and mined blocks together
RecordCount(voter_id) ==
    Cardinality(RecordsOf(pending_transactions, voter_id))
      + Cardinality(RecordsOf(MinedTxs, voter_id))

BcRecordCount(voter_id) ==
    Cardinality(RecordsOf(bc_pending_transactions, voter_id))
      + Cardinality(RecordsOf(BcMinedTxs, voter_id))

AlreadyVoted == Response(FALSE, "This voter has already voted")

----------------------------------------------------------------------------
(* C1..C10 *)

\* C1: between calls, every voter has at most one vote record in the pending
\* pool and the mined blocks together, in both implementations.
C1_OneVotePerVoter ==
    Quiescent => \A v \in VoterIds : RecordCount(v) <= 1 /\ BcRecordCount(v) <= 1

\* one voter's record is mined, another's is pending
C1_Witness ==
    /\ Quiescent
    /\ \E v, w \in VoterIds :
         /\ RecordsOf(MinedTxs, v) # {}
         /\ RecordsOf(pending_transactions, w) # {}

\* C2: two overlapping cast_vote calls for one voter: at most one of them is
\* accepted, and the pool never holds two records of one voter.
C2_AtomicAdmission ==
    /\ \A v \in VoterIds : Cardinality(RecordsOf(pending_transactions, v)) <= 1
    /\ \A t, u \in Handlers :
         (/\ t # u
          /\ pc[t] = "respond" /\ pc[u] = "respond"
          /\ frame[t].op = "cast_vote" /\ frame[u].op = "cast_vote"
          /\ frame[t].voter_id = frame[u].voter_id)
         => ~(ret[t].success /\ ret[u].success)

\* C3: a cast_vote with the stored token and a listed candidate, for a voter
\* whose record has been mined out of the pool, returns "already voted" and
\* adds nothing to the pool.
C3_NoRevoteAfterMining ==
    [][/\ \A t \in Handlers, v \in VoterIds, c \in CandidateInputs :
            (/\ v \in DOMAIN registered_voters
             /\ c \in Range(candidates)
             /\ RecordsOf(MinedTxs, v) # {}
             /\ RecordsOf(pending_transactions, v) = {}
             /\ cast_vote_185(t, v, registered_voters[v], c))
            => /\ ret'[t] = AlreadyVoted
               /\ pc'[t] = "respond"
               /\ pending_transactions' = pending_transactions
       /\ \A v \in VoterIds, c \in CandidateInputs :
            (/\ v \in DOMAIN vs_voters
             /\ c \in Range(vs_candidates)
             /\ RecordsOf(BcMinedTxs, v) # {}
             /\ RecordsOf(bc_pending_transactions, v) = {}
             /\ vs_cast_vote(v, vs_voters[v].token, c))
            => /\ vs_ret' = Returned("Voter has already cast a vote")
               /\ bc_pending_transactions' = bc_pending_transactions
      ]_vars

\* a voter whose record is mined has just been refused a second vote
C3_Witness ==
    \E t \in Handlers :
        /\ pc[t] = "respond"
        /\ frame[t].op = "cast_vote"
        /\ ret[t] = AlreadyVoted
        /\ RecordsOf(MinedTxs, frame[t].voter_id) # {}
        /\ RecordsOf(pending_transactions, frame[t].voter_id) = {}

\* the distinct vote records of a voter, pool and mined blocks together
RecordValues(voter_id) ==
    {pending_transactions[i] : i \in RecordsOf(pending_transactions, voter_id)}
      \cup {MinedTxs[i] : i \in RecordsOf(MinedTxs, voter_id)}

\* C4: when a mine_pending_transactions completes (it clears the pool), the
\* record of a voter who voted once is afterwards in exactly one place: still
\* in the pool, or in a mined block; also when the record was appended after
\* the call took its copy of the pool.
C4_VoteNeitherLostNorDoubled ==
    [][\A t \in Threads :
          mine_pending_transactions_103(t) =>
             \A i \in DOMAIN pending_transactions :
                 LET r == pending_transactions[i] IN
                 (/\ Cardinality(RecordsOf(pending_transactions, r.voter_id)) = 1
                  /\ RecordValues(r.voter_id) = {r})
                 => (r \in Range(pending_transactions')) # (r \in Range(MinedTxs'))
      ]_vars

\* the daemon thread is inside mine_pending_transactions, past its test
AutoMining == pc["auto"] \in {"mine_92", "mine_100", "mine_103"}

\* no two blocks share an index or a previous_hash, no record is in two blocks
NoClash(blocks) ==
    \A i, j \in DOMAIN blocks :
        i # j => /\ blocks[i].index # blocks[j].index
                 /\ blocks[i].previous_hash # blocks[j].previous_hash
                 /\ Range(blocks[i].transactions) \cap Range(blocks[j].transactions) = {}

\* C5: the daemon and the /mine route never mine at the same time: when the
\* daemon appends a block, or a /mine request does while the daemon is
\* mining, the chain gets no second block with the same index or the same
\* previous_hash, and no vote record gets into two blocks.
C5_MinersExclusive ==
    [][\A t \in Threads :
          (mine_pending_transactions_100(t) /\ (t = "auto" \/ AutoMining))
             => NoClash(chain')
      ]_vars

\* C6: no state has a vote record both in a mined block and in the pool.
C6_AppendAndClearAtomic ==
    Range(MinedTxs) \cap Range(pending_transactions) = {}

\* a block built on a chain from a pool: the next index, the hash of the last
\* block, the records of the pool in their order
BuiltOn(block, blocks, pool) ==
    /\ block.index = Len(blocks)
    /\ block.previous_hash = blocks[Len(blocks)].hash
    /\ block.transactions = pool

\* C7: a mine_pending_transactions on a non-empty pool that runs alone appends
\* exactly one block, built on the chain and the pool as they were, and then
\* empties the pool; it changes the chain and the pool in no other step.
C7_MineAppendsThePool ==
    [][/\ \A t \in Threads :
            /\ (mine_pending_transactions_85(t) \/ pc[t] = "mine_92")
                 => UNCHANGED <<chain, pending_transactions>>
            /\ mine_pending_transactions_100(t)
                 => /\ pending_transactions # <<>>
                    /\ Len(chain') = Len(chain) + 1
                    /\ SubSeq(chain', 1, Len(chain)) = chain
                    /\ BuiltOn(chain'[Len(chain')], chain, pending_transactions)
                    /\ pending_transactions' = pending_transactions
            /\ mine_pending_transactions_103(t)
                 => /\ chain' = chain
                    /\ chain[Len(chain)].transactions = pending_transactions
                    /\ pending_transactions' = <<>>
       /\ (/\ bc_pending_transactions # <<>>
           /\ vs_ret'.message \in {"Votes mined successfully!", "No votes to mine"}
           /\ vs_mine_votes)
            => /\ Len(bc_chain') = Len(bc_chain) + 1
               /\ SubSeq(bc_chain', 1, Len(bc_chain)) = bc_chain
               /\ BuiltOn(bc_chain'[Len(bc_chain')], bc_chain, bc_pending_transactions)
               /\ bc_pending_transactions' = <<>>
      ]_vars

\* a second block holding two records has been mined, and the pool is empty
C7_Witness ==
    /\ Quiescent
    /\ pending_transactions = <<>>
    /\ \E i \in DOMAIN chain : i > 1 /\ Len(chain[i].transactions) = 2

\* C8: mine_pending_transactions on an empty pool returns "No votes to mine"
\* and changes neither the chain, nor the pool, nor the registry.
C8_NothingToMine ==
    [][/\ \A t \in Threads :
            (pending_transactions = <<>> /\ mine_pending_transactions_85(t))
            => /\ t \in Handlers => /\ ret'[t] = Response(FALSE, "No votes to mine")
                                    /\ pc'[t] = "respond"
               /\ t = "auto" => pc'[t] = "idle"
               /\ UNCHANGED <<chain, pending_transactions, voted_voters,
                              registered_voters>>
       /\ (bc_pending_transactions = <<>> /\ vs_mine_votes)
            => /\ vs_ret' = Returned("No votes to mine")
               /\ UNCHANGED <<bc_chain, bc_pending_transactions, vs_voters,
                              vs_pending_votes>>
      ]_vars

\* a /mine request found the pool empty, with a registered voter in the registry
C8_Witness ==
    \E t \in Handlers :
        /\ pc[t] = "respond"
        /\ frame[t].op = "mine"
        /\ ret[t] = Response(FALSE, "No votes to mine")
        /\ pending_transactions = <<>>
        /\ DOMAIN registered_voters # {}

\* the blocks of a chain are linked by their hashes
Linked(blocks) ==
    \A i \in DOMAIN blocks : i > 1 => blocks[i].previous_hash = blocks[i - 1].hash

\* C9: when calls do not overlap, every block after the first carries the
\* stored hash of the block before it, in both implementations.
C9_HashLinked == Linked(chain) /\ Linked(bc_chain)

\* two blocks have been mined after the genesis block
C9_Witness == Len(chain) >= 3

\* C10: every block of the chain, the genesis block included, stores the digest
\* of its own index, transactions, timestamp, previous_hash and nonce.
C10_HashRoundTrip ==
    /\ \A i \in DOMAIN chain : chain[i].hash = calculate_hash(chain[i])
    /\ \A i \in DOMAIN bc_chain : bc_chain[i].hash = calculate_hash(bc_chain[i])

\* a block after the genesis block was mined with a nonce search that ran
C10_Witness == \E i \in DOMAIN chain : i > 1 /\ chain[i].nonce > 0

----------------------------------------------------------------------------
(* C11..C20 *)

\* the first d hexadecimal characters of the hash of a block are zeros
LeadingZeros(b, d) == Len(b.hash) >= d /\ \A i \in 1..d : b.hash[i] = 0

\* C11: every block of the chain, the genesis block included, has a hash with
\* `difficulty` leading zeros, in every reachable state: a block is in the
\* chain only after its nonce search has ended.
C11_ProofOfWork ==
    /\ \A i \in DOMAIN chain : LeadingZeros(chain[i], difficulty)
    /\ \A i \in DOMAIN bc_chain : LeadingZeros(bc_chain[i], bc_difficulty)

\* the standalone chain holds a block whose nonce search ran
C11_Witness == \E i \in DOMAIN bc_chain : i > 1 /\ bc_chain[i].nonce > 0

\* a genesis block: index 0, previous_hash "0", the one-element marker
IsGenesis(b, marker) ==
    /\ b.index = 0
    /\ b.previous_hash = <<0>>
    /\ b.transactions = <<marker>>

\* C12: after construction the chain is the genesis block alone and the pool
\* is empty; in every later state the chain is not empty and its first block
\* is that same block.
C12_Genesis ==
    /\ program = "app"
         => /\ Len(chain) = 1
            /\ IsGenesis(chain[1], [message |-> "Genesis Block"])
            /\ pending_transactions = <<>>
    /\ program = "voting_system"
         => /\ Len(bc_chain) = 1
            /\ IsGenesis(bc_chain[1], GenesisString)
            /\ bc_pending_transactions = <<>>
    /\ [][/\ program = "app" => chain' # <<>> /\ chain'[1] = chain[1]
          /\ program = "voting_system" => bc_chain' # <<>> /\ bc_chain'[1] = bc_chain[1]
         ]_vars

\* time has passed and a block was mined on top of the genesis block
C12_Witness == Len(chain) >= 2 /\ now > chain[1].timestamp /\ IsGenesis(chain[1], [message |-> "Genesis Block"])

\* results.get(candidate, 0)
CountOf(results, candidate) ==
    IF candidate \in DOMAIN results THEN results[candidate] ELSE 0

\* the sum of the counts of a tally
RECURSIVE Total(_)
Total(results) ==
    IF DOMAIN results = {} THEN 0
    ELSE LET c == CHOOSE c \in DOMAIN results : TRUE
         IN  results[c] + Total([x \in DOMAIN results \ {c} |-> results[x]])

\* the positions of the records naming a candidate in a list of transactions
NamedIn(txs, candidate) ==
    {i \in DOMAIN txs : "candidate" \in DOMAIN txs[i] /\ txs[i].candidate = candidate}

\* the transactions of the mined blocks after the genesis block, then the pool
Ledger == SubSeq(MinedTxs, 2, Len(MinedTxs)) \o pending_transactions

\* C13: between calls, the tally of the web module gives every candidate the
\* number of records naming it in the mined blocks after genesis and the pool
\* together, names no candidate without a record, and sums to the number of
\* voters marked as voted (one per accepted cast_vote).
C13_TallyCountsEachRecordOnce ==
    (Quiescent /\ program = "app") =>
        /\ \A c \in Range(Names) :
               CountOf(get_results, c) = Cardinality(NamedIn(Ledger, c))
        /\ \A c \in DOMAIN get_results : get_results[c] > 0
        /\ DOMAIN get_results \subseteq Range(candidates)
        /\ Total(get_results) = Cardinality(voted_voters)

\* one vote for a candidate is mined, another for the same candidate is pending
C13_Witness ==
    /\ Quiescent
    /\ \E c \in DOMAIN get_results :
         /\ get_results[c] = 2
         /\ Cardinality(NamedIn(pending_transactions, c)) = 1

----------------------------------------------------------------------------

\* C14: in the standalone module, an accepted cast_vote raises the count of
\* its candidate in VotingSystem.get_results by one at once, before any
\* mine_votes.
C14_ResultsCountPending ==
    [][\A v \in VoterIds, token \in TokenInputs, c \in CandidateInputs :
          (/\ vs_cast_vote(v, token, c)
           /\ vs_ret' = Returned("Vote cast successfully! It will be added to blockchain when mined."))
          => CountOf(vs_get_results', c) = CountOf(vs_get_results, c) + 1
      ]_vars

----------------------------------------------------------------------------

\* C15: mine_pending_transactions, run alone, returns with the tally it
\* started with: its test and the building of the block change no tally, the
\* block it appends makes the tally of the chain alone equal to the tally
\* before the call, and the clearing of the pool leaves the chain alone.
C15_MiningConservesTally ==
    [][\A t \in Threads :
          /\ (mine_pending_transactions_85(t) \/ pc[t] = "mine_92")
               => get_results' = get_results
          /\ mine_pending_transactions_100(t)
               => get_results_of(chain', <<>>) = get_results
          /\ mine_pending_transactions_103(t)
               => get_results' = get_results_of(chain, <<>>)
      ]_vars

\* a /mine request has mined a block and the tally is not empty
C15_Witness ==
    \E t \in Handlers :
        /\ pc[t] = "respond"
        /\ frame[t].op = "mine"
        /\ ret[t].success
        /\ pending_transactions = <<>>
        /\ Total(get_results) >= 1

----------------------------------------------------------------------------

\* a chain whose block at position p got another nonce after it was mined
NonceChanged(blocks, p) == [blocks EXCEPT ![p].nonce = @ + 1]

\* the validation that reports a failed test at an index
Invalid(index, test) == Validation(FALSE, <<[index |-> index, test |-> test]>>)

\* C16: for every block of the chain, the genesis block included, a validation
\* of the chain with that block's nonce changed returns False and reports the
\* index of that block.
C16_TamperDetected ==
    /\ \A p \in DOMAIN chain :
           is_chain_valid(NonceChanged(chain, p)) = Invalid(p - 1, "hash")
    /\ \A p \in DOMAIN bc_chain :
           bc_is_chain_valid(NonceChanged(bc_chain, p)) = Invalid(p - 1, "hash")

----------------------------------------------------------------------------

\* a chain whose block at position p got another stored hash, or another
\* previous_hash
HashChanged(blocks, p) ==
    [blocks EXCEPT ![p].hash = ToHex((FromHex(@) + 1) % HexSpace, HashLen)]

LinkChanged(blocks, p) ==
    [blocks EXCEPT ![p].previous_hash = ToHex((FromHex(@) + 1) % HexSpace, HashLen)]

\* a chain as it is, and with one block changed in one field
Variants(blocks) ==
    {blocks} \cup UNION {{NonceChanged(blocks, p), HashChanged(blocks, p),
                          LinkChanged(blocks, p)} : p \in DOMAIN blocks}

\* the positions after the first where a chain fails one of the two tests
Failing(blocks) ==
    {p \in DOMAIN blocks :
        /\ p > 1
        /\ \/ blocks[p].hash # calculate_hash(blocks[p])
           \/ blocks[p].previous_hash # blocks[p - 1].hash}

\* what the validation of a chain has to give: valid when no position fails,
\* else the smallest failing index, with the hash test first
Verdict(blocks) ==
    IF Failing(blocks) = {} THEN Validation(TRUE, <<>>)
    ELSE LET p == CHOOSE p \in Failing(blocks) : \A q \in Failing(blocks) : p <= q
         IN  Invalid(p - 1, IF blocks[p].hash # calculate_hash(blocks[p])
                            THEN "hash" ELSE "previous_hash")

\* C17: the validation of a chain, as it is or with one field of one block
\* changed, is invalid exactly when some index i >= 1 fails the hash test or
\* the link test, reports the smallest such index, and reports the hash test
\* when both fail there.
C17_ValidationVerdict ==
    /\ \A blocks \in Variants(chain) : is_chain_valid(blocks) = Verdict(blocks)
    /\ \A blocks \in Variants(bc_chain) : bc_is_chain_valid(blocks) = Verdict(blocks)

----------------------------------------------------------------------------

Accepted == Response(TRUE, "Vote added successfully")

VsAccepted == Returned("Vote cast successfully! It will be added to blockchain when mined.")

\* the outcome the precedence of cast_vote gives a call: the first of the four
\* rejections that applies, or the acceptance
Outcome(registered, token_matches, listed, has_voted, rejections, accepted) ==
    IF ~registered THEN rejections[1]
    ELSE IF ~token_matches THEN rejections[2]
    ELSE IF ~listed THEN rejections[3]
    ELSE IF has_voted THEN rejections[4]
    ELSE accepted

\* C18: cast_vote answers with the first that applies of: voter not
\* registered, token not the stored one, candidate not listed, voter has a
\* vote record; it accepts only when none applies.
C18_RejectionPrecedence ==
    [][/\ \A t \in Handlers, v \in VoterIds, token \in TokenInputs, c \in CandidateInputs :
            cast_vote_185(t, v, token, c) =>
                LET outcome ==
                      Outcome(v \in DOMAIN registered_voters,
                              v \in DOMAIN registered_voters /\ registered_voters[v] = token,
                              c \in Range(candidates),
                              RecordCount(v) > 0,
                              <<Response(FALSE, "Voter not registered"),
                                Response(FALSE, "Invalid token"),
                                Response(FALSE, InvalidCandidate),
                                AlreadyVoted>>,
                              Accepted)
                IN  IF outcome = Accepted
                    THEN pc'[t] = "add_vote_78"
                    ELSE pc'[t] = "respond" /\ ret'[t] = outcome
       /\ \A t \in Handlers : add_vote_79(t) => ret'[t] = Accepted
       /\ \A v \in VoterIds, token \in TokenInputs, c \in CandidateInputs :
            vs_cast_vote(v, token, c) =>
                vs_ret' = Outcome(v \in DOMAIN vs_voters,
                                  v \in DOMAIN vs_voters /\ vs_voters[v].token = token,
                                  c \in Range(vs_candidates),
                                  BcRecordCount(v) > 0,
                                  <<Returned("Voter not registered"),
                                    Returned("Invalid token"),
                                    Returned("Invalid candidate"),
                                    Returned("Voter has already cast a vote")>>,
                                  VsAccepted)
      ]_vars

\* a voter who has voted was refused for the token, not for the vote
C18_Witness ==
    \E t \in Handlers :
        /\ pc[t] = "respond"
        /\ frame[t].op = "cast_vote"
        /\ ret[t] = Response(FALSE, "Invalid token")
        /\ RecordCount(frame[t].voter_id) > 0

----------------------------------------------------------------------------

\* C19: a cast_vote that is rejected leaves the pool, the chain, the registry
\* with its tokens and voted marks, and the tally as they were; a cast_vote
\* with the stored token and a listed candidate by a voter who has a vote
\* record is rejected, whatever the candidate.
C19_RejectionChangesNothing ==
    [][/\ \A t \in Handlers, v \in VoterIds, token \in TokenInputs, c \in CandidateInputs :
            cast_vote_185(t, v, token, c) =>
               /\ pc'[t] = "respond" =>
                     /\ ~ret'[t].success
                     /\ UNCHANGED <<chain, pending_transactions, registered_voters,
                                    voted_voters>>
                     /\ get_results' = get_results
               /\ (/\ RecordCount(v) > 0
                   /\ v \in DOMAIN registered_voters
                   /\ registered_voters[v] = token
                   /\ c \in Range(candidates))
                  => /\ pc'[t] = "respond"
                     /\ Len(pending_transactions') = Len(pending_transactions)
                     /\ RecordValues(v)' = RecordValues(v)
       /\ \A v \in VoterIds, token \in TokenInputs, c \in CandidateInputs :
            (vs_cast_vote(v, token, c) /\ vs_ret' # VsAccepted) =>
               /\ UNCHANGED <<bc_chain, bc_pending_transactions, vs_voters,
                              vs_pending_votes>>
               /\ vs_get_results' = vs_get_results
      ]_vars

\* a voter whose vote is pending has been refused a second vote, and the pool
\* still holds that one record
C19_Witness ==
    \E t \in Handlers :
        /\ pc[t] = "respond"
        /\ frame[t].op = "cast_vote"
        /\ ret[t] = AlreadyVoted
        /\ Len(pending_transactions) = 1
        /\ pending_transactions[1].voter_id = frame[t].voter_id

----------------------------------------------------------------------------

\* pool is old with one record of the voter for the candidate at its end
Submitted(pool, old, voter_id, candidate) ==
    /\ Len(pool) = Len(old) + 1
    /\ SubSeq(pool, 1, Len(old)) = old
    /\ pool[Len(pool)].voter_id = voter_id
    /\ pool[Len(pool)].candidate = candidate

\* C20: an accepted cast_vote is one for a registered voter without a vote
\* record, with the stored token and a listed candidate; it adds one record of
\* that voter and candidate at the end of the pool, marks the voter, and
\* leaves the chain, the other records and the other voters as they were.
C20_AcceptedVote ==
    [][/\ \A t \in Handlers, v \in VoterIds, token \in TokenInputs, c \in CandidateInputs :
            (cast_vote_185(t, v, token, c) /\ pc'[t] = "add_vote_78") =>
               /\ v \in DOMAIN registered_voters /\ registered_voters[v] = token
               /\ c \in Range(candidates)
               /\ RecordCount(v) = 0
               /\ frame'[t].voter_id = v /\ frame'[t].candidate = c
               /\ UNCHANGED <<chain, pending_transactions, registered_voters,
                              voted_voters>>
       /\ \A t \in Handlers :
            /\ add_vote_78(t) =>
                 /\ Submitted(pending_transactions', pending_transactions,
                              frame[t].voter_id, frame[t].candidate)
                 /\ UNCHANGED <<chain, registered_voters, voted_voters>>
            /\ add_vote_79(t) =>
                 /\ frame[t].voter_id \notin voted_voters
                 /\ voted_voters' = voted_voters \cup {frame[t].voter_id}
                 /\ ret'[t] = Accepted
                 /\ UNCHANGED <<chain, pending_transactions, registered_voters>>
       /\ \A v \in VoterIds, token \in TokenInputs, c \in CandidateInputs :
            (vs_cast_vote(v, token, c) /\ vs_ret' = VsAccepted) =>
               /\ v \in DOMAIN vs_voters /\ vs_voters[v].token = token
               /\ c \in Range(vs_candidates)
               /\ BcRecordCount(v) = 0 /\ ~vs_voters[v].voted
               /\ Submitted(bc_pending_transactions', bc_pending_transactions, v, c)
               /\ vs_voters'[v].voted /\ v \in DOMAIN vs_pending_votes'
               /\ DOMAIN vs_voters' = DOMAIN vs_voters
               /\ \A w \in DOMAIN vs_voters :
                     /\ vs_voters'[w].token = vs_voters[w].token
                     /\ w # v => vs_voters'[w] = vs_voters[w]
               /\ bc_chain' = bc_chain
      ]_vars

\* a second voter's vote was accepted, its record is the last of two
C20_Witness ==
    \E t \in Handlers :
        /\ pc[t] = "respond"
        /\ frame[t].op = "cast_vote"
        /\ ret[t] = Accepted
        /\ Len(pending_transactions) = 2
        /\ pending_transactions[2].voter_id = frame[t].voter_id
        /\ frame[t].voter_id \in voted_voters

----------------------------------------------------------------------------
(* C21..C30 *)

AlreadyRegistered == Response(FALSE, "Voter already registered")

\* C21: register_voter for a registered id fails with "Voter already
\* registered" and changes nothing: the token and the voted mark stay; for a
\* new id it adds one entry, not marked as voted, and changes no other entry,
\* nor the pool, nor the chain.
C21_RegisterOnce ==
    [][/\ \A t \in Handlers, v \in VoterIds :
            register_voter_162(t, v) =>
               /\ UNCHANGED <<registered_voters, voted_voters, chain,
                              pending_transactions>>
               /\ IF v \in DOMAIN registered_voters
                  THEN pc'[t] = "respond" /\ ret'[t] = AlreadyRegistered
                  ELSE pc'[t] = "register_voter_166"
       /\ \A t \in Handlers :
            register_voter_166(t) =>
               LET v == frame[t].voter_id IN
               /\ v \notin DOMAIN registered_voters
               /\ DOMAIN registered_voters' = DOMAIN registered_voters \cup {v}
               /\ \A w \in DOMAIN registered_voters :
                      registered_voters'[w] = registered_voters[w]
               /\ v \notin voted_voters'
               /\ ret'[t].success
               /\ UNCHANGED <<voted_voters, chain, pending_transactions>>
       /\ \A v \in VoterIds :
            vs_register_voter(v) =>
               /\ UNCHANGED <<bc_chain, bc_pending_transactions, vs_pending_votes>>
               /\ IF v \in DOMAIN vs_voters
                  THEN vs_ret' = Raised("Voter already registered")
                       /\ vs_voters' = vs_voters
                  ELSE /\ ~vs_ret'.raised
                       /\ DOMAIN vs_voters' = DOMAIN vs_voters \cup {v}
                       /\ ~vs_voters'[v].voted
                       /\ vs_voters'[v].token = vs_ret'.token
                       /\ \A w \in DOMAIN vs_voters : vs_voters'[w] = vs_voters[w]
      ]_vars

\* a voter who has voted was refused a second registration, at a later time
C21_Witness ==
    \E t \in Handlers :
        /\ pc[t] = "respond"
        /\ frame[t].op = "register_voter"
        /\ ret[t] = AlreadyRegistered
        /\ frame[t].voter_id \in voted_voters
        /\ now > 1

----------------------------------------------------------------------------

\* C22: in every step, a registered voter stays registered with the same
\* token, a voter marked as voted stays marked, a marked voter is registered,
\* and a voter gets marked only by the step of a cast_vote that returns its
\* acceptance for that voter.
C22_LifeCycleMonotonic ==
    [][/\ \A v \in DOMAIN registered_voters :
            /\ v \in DOMAIN registered_voters'
            /\ registered_voters'[v] = registered_voters[v]
       /\ voted_voters \subseteq voted_voters'
       /\ voted_voters' \subseteq DOMAIN registered_voters'
       /\ \A v \in voted_voters' \ voted_voters :
            \E t \in Handlers :
               /\ add_vote_79(t)
               /\ frame[t].voter_id = v
               /\ ret'[t] = Accepted
       /\ \A v \in DOMAIN vs_voters :
            /\ v \in DOMAIN vs_voters'
            /\ vs_voters'[v].token = vs_voters[v].token
            /\ vs_voters[v].voted => vs_voters'[v].voted
            /\ (~vs_voters[v].voted /\ vs_voters'[v].voted)
                 => /\ vs_ret' = VsAccepted
                    /\ \E token \in TokenInputs, c \in CandidateInputs :
                          vs_cast_vote(v, token, c)
      ]_vars

----------------------------------------------------------------------------

\* blocks is old with blocks appended: no block of old is gone, moved or
\* changed in any field
Extends(blocks, old) ==
    /\ Len(blocks) >= Len(old)
    /\ \A i \in DOMAIN old : blocks[i] = old[i]

\* C23: every step of every operation, interleaved or not, leaves every block
\* of the chain at its position with all its fields, and the chain no shorter.
C23_AppendOnly ==
    [][Extends(chain', chain) /\ Extends(bc_chain', bc_chain)]_vars

\* two threads are inside calls on a chain that holds a mined block
C23_Witness ==
    /\ Len(chain) >= 2
    /\ Cardinality(Busy) = 2

----------------------------------------------------------------------------

\* C24: in every reachable state, the status of every registered voter says
\* "Pending" exactly when the pool holds a record of the voter, "Mined"
\* exactly when a mined block does, "Not voted" exactly when neither does.
C24_StatusFaithful ==
    \A v \in DOMAIN registered_voters :
        LET voted_at == get_voter_status[v].voted_at IN
        /\ voted_at = "Pending" <=> RecordsOf(pending_transactions, v) # {}
        /\ voted_at = "Mined" <=> RecordsOf(MinedTxs, v) # {}
        /\ voted_at = "Not voted" <=> RecordCount(v) = 0

----------------------------------------------------------------------------

\* C25: between calls, the chain data of the web module give the number of
\* records of the pool as pending_count, the number of transactions of the
\* blocks after the genesis block plus the pool as total_votes, one entry per
\* block of the chain, and a total_votes equal to the sum of the tally.
C25_ChainDataConsistent ==
    (Quiescent /\ program = "app") =>
        /\ get_chain_data.pending_count = Cardinality(DOMAIN pending_transactions)
        /\ get_chain_data.total_votes = Len(Ledger)
        /\ Len(get_chain_data.blocks) = Len(chain)
        /\ \A i \in DOMAIN chain : get_chain_data.blocks[i].index = chain[i].index
        /\ get_chain_data.total_votes = Total(get_results)

\* one vote is mined and one is pending
C25_Witness ==
    /\ Quiescent
    /\ program = "app"
    /\ get_chain_data.total_votes = 2
    /\ get_chain_data.pending_count = 1
    /\ Len(get_chain_data.blocks) = 2

----------------------------------------------------------------------------

\* C26: Blockchain.add_transaction checks nothing and always succeeds: it
\* puts the transaction at the end of the pool, also when the pool or a mined
\* block holds a record of the same voter, and leaves the chain alone.
C26_SubmitAlwaysAppends ==
    [][\A v \in VoterIds, c \in CandidateInputs :
          LET tx == vote_transaction(v, c, now) IN
          bc_add_transaction(tx) =>
             /\ bc_pending_transactions' = Append(bc_pending_transactions, tx)
             /\ vs_ret' = Returned("True")
             /\ bc_chain' = bc_chain
      ]_vars

\* the pool holds two records of one voter, and a mined block holds another
C26_Witness ==
    \E v \in VoterIds :
        /\ Cardinality(RecordsOf(bc_pending_transactions, v)) = 2
        /\ RecordsOf(BcMinedTxs, v) # {}

----------------------------------------------------------------------------

\* C27: with fair scheduling of the threads, a voter whose record enters the
\* pool gets a record into a mined block, also when votes and mining
\* interleave.
C27_EventuallyMined ==
    \A v \in VoterIds :
        (RecordsOf(pending_transactions, v) # {}) ~> (RecordsOf(MinedTxs, v) # {})

----------------------------------------------------------------------------

\* C28: when no call is under way and the calls did not overlap, the chain
\* that the program built passes its own validation: is_chain_valid returns
\* True, and the one of blockchain.py prints nothing.
C28_SelfValidating ==
    Quiescent =>
        /\ is_chain_valid(chain).valid
        /\ bc_is_chain_valid(bc_chain) = Validation(TRUE, <<>>)

\* a block has been mined on top of the genesis block and validated, while
\* the pool already holds the next vote
C28_Witness ==
    /\ Quiescent
    /\ Len(chain) >= 2
    /\ pending_transactions # <<>>
    /\ is_chain_valid(chain).valid

----------------------------------------------------------------------------

\* C29: when no call is under way and the calls did not overlap, a voter is
\* marked as voted (in voted_voters; voters[v]['voted'] in the standalone
\* module) exactly when the pool and the mined blocks together hold one
\* record of that voter.
C29_MarkerAgrees ==
    Quiescent =>
        \A v \in VoterIds :
            /\ v \in voted_voters <=> RecordCount(v) = 1
            /\ (v \in DOMAIN vs_voters /\ vs_voters[v].voted) <=> BcRecordCount(v) = 1

\* one voter is marked and has its record, another is registered and has
\* not voted
C29_Witness ==
    /\ Quiescent
    /\ \E v, w \in DOMAIN vs_voters :
          /\ vs_voters[v].voted /\ BcRecordCount(v) = 1
          /\ ~vs_voters[w].voted /\ BcRecordCount(w) = 0

----------------------------------------------------------------------------

\* the block at position i of the list (counted from 0, as the code counts)
\* has index i
Contiguous(blocks) == \A p \in DOMAIN blocks : blocks[p].index = p - 1

\* C30: when the calls do not overlap, the block at position i of the chain
\* has index i, from the genesis block at 0 to the last block, so no two
\* blocks have the same index.
C30_IndexIsPosition ==
    /\ Contiguous(chain) /\ Contiguous(bc_chain)
    /\ \A p, q \in DOMAIN chain : chain[p].index = chain[q].index => p = q
    /\ \A p, q \in DOMAIN bc_chain : bc_chain[p].index = bc_chain[q].index => p = q

\* the third block of the chain has been mined
C30_Witness == Quiescent /\ Len(chain) = 3 /\ chain[3].index = 2

----------------------------------------------------------------------------

\* the records of the standalone module in ledger order: the mined blocks in
\* chain order, then the pool
BcLedger == BcMinedTxs \o bc_pending_transactions

\* the place of the first record of a voter
FirstOf(txs, voter_id) ==
    CHOOSE i \in RecordsOf(txs, voter_id) : \A j \in RecordsOf(txs, voter_id) : i <= j

\* both voters have a record and the one of a comes first in ledger order
Precedes(txs, a, b) ==
    /\ RecordsOf(txs, a) # {}
    /\ RecordsOf(txs, b) # {}
    /\ FirstOf(txs, a) < FirstOf(txs, b)

\* the first record of b enters the ledger
Enters(txs, new, b) == RecordsOf(txs, b) = {} /\ RecordsOf(new, b) # {}

\* C31: a record that is admitted comes after the records already in the
\* ledger, and once the record of voter a precedes the record of voter b in
\* ledger order (earlier block, earlier place in a block, mined before
\* pending, earlier place in the pool), it precedes it in every later state.
C31_OrderPreserved ==
    [][\A a, b \in VoterIds :
          /\ Precedes(Ledger, a, b) => Precedes(Ledger', a, b)
          /\ Precedes(BcLedger, a, b) => Precedes(BcLedger', a, b)
          /\ RecordsOf(Ledger, a) # {} /\ Enters(Ledger, Ledger', b)
                => Precedes(Ledger', a, b)
          /\ RecordsOf(BcLedger, a) # {} /\ Enters(BcLedger, BcLedger', b)
                => Precedes(BcLedger', a, b)
      ]_vars

----------------------------------------------------------------------------

\* the places of the vote records of a block
VoteRecords(b) == {i \in DOMAIN b.transactions : "voter_id" \in DOMAIN b.transactions[i]}

\* every block after the first holds a vote record, and only the first block
\* holds the marker
VoteBlocks(blocks, marker) ==
    \A p \in DOMAIN blocks :
        /\ p >= 2 => VoteRecords(blocks[p]) # {}
        /\ marker \in Range(blocks[p].transactions) => p = 1

\* C32: in every reachable state, also when the daemon and manual mining
\* interleave, every block of index 1 or more holds at least one vote
\* record, and only the genesis block holds the genesis marker.
C32_NoEmptyBlock ==
    /\ VoteBlocks(chain, [message |-> "Genesis Block"])
    /\ VoteBlocks(bc_chain, GenesisString)

----------------------------------------------------------------------------

\* every key of a tally is one of the listed candidates and no count is 0
Listed(results, listed) ==
    /\ DOMAIN results \subseteq Range(listed)
    /\ \A c \in DOMAIN results : results[c] >= 1

\* C33: the tally of the web module and the tally of the standalone module
\* name only candidates of the list fixed at construction, each with a count
\* of at least 1; a candidate without a vote is absent.  No statement assigns
\* self.candidates after __init__, so the list is a definition of the model.
C33_OnlyListedCandidates ==
    /\ Listed(get_results, candidates)
    /\ Listed(vs_get_results, vs_candidates)

\* a vote for a name that is not on the list has just been refused, while the
\* tally already counts a vote
C33_Witness ==
    \E t \in Handlers :
        /\ pc[t] = "respond"
        /\ ret[t] = Response(FALSE, InvalidCandidate)
        /\ DOMAIN get_results # {}

----------------------------------------------------------------------------

\* C34: in the standalone module, after any calls of register_voter,
\* cast_vote and mine_votes, the keys of pending_votes are the voter_ids of
\* the records in the pool of the blockchain, get_pending_votes_count is the
\* size of the pool, and it is 0 right after a mine_votes that mined.
C34_PendingMirrorsPool ==
    /\ DOMAIN vs_pending_votes =
           {bc_pending_transactions[i].voter_id : i \in DOMAIN bc_pending_transactions}
    /\ get_pending_votes_count = Len(bc_pending_transactions)
    /\ vs_ret = Returned("Votes mined successfully!") => get_pending_votes_count = 0

\* a vote was mined, and the vote of another voter has just been accepted
C34_Witness ==
    /\ vs_ret = VsAccepted
    /\ Len(bc_chain) = 2
    /\ get_pending_votes_count = 1

----------------------------------------------------------------------------

\* the chain, the pool, the registry and the voted markers of both modules
Stored ==
    <<chain, pending_transactions, registered_voters, voted_voters,
      bc_chain, bc_pending_transactions, vs_voters, vs_pending_votes>>

\* C35: a query (validation, results, chain data, status, pending count,
\* has_voter_voted, verify_token) leaves the chain, the pool, the registry
\* and the voted markers as they were, in every state, also while another
\* call is under way, and whatever it returns.
C35_QueriesReadOnly ==
    [][(LibQuery \/ \E t \in Handlers : AppQuery(t)) => UNCHANGED Stored]_vars

\* a status query has answered that a vote is pending, while another thread
\* is in the middle of a call
C35_Witness ==
    \E t \in Handlers :
        /\ pc[t] = "respond"
        /\ frame[t].op = "status"
        /\ \E v \in DOMAIN ret[t].value : ret[t].value[v].voted_at = "Pending"
        /\ \E u \in Threads \ {t} : pc[u] \notin {"idle", "respond"}
====
